---- MODULE Spec2Model ----
(***************************************************************************)
(* League setup matchups of go-fantrax: the page extractors of             *)
(* auth_client/get_league_setup_matchups.go, the in-place mutation and the *)
(* form serialisation of auth_client/set_period_matchups.go.               *)
(*                                                                         *)
(* Strings are TLA+ strings; Len, SubSeq and \o act on them character by   *)
(* character, so formatting and splitting are computed, not assumed.       *)
(***************************************************************************)
EXTENDS Integers, Sequences, FiniteSets, TLC

VARIABLES
    page,    \* the league setup page the remote serves, as the matches of the extractors' patterns
    pc,      \* "new": no snapshot yet; "fetched": the caller holds setup; "failed": the fetch returned an error
    setup,   \* the *models.LeagueSetupMatchups the caller holds
    last,    \* the last operation: its arguments, what it returned and what it sent
    extraction,        \* the parseTeams calls in progress, one per goroutine
    counters,          \* parseTeams' uniqueTempUserID, one cell per variable the calls hold
    caller,            \* the slice a caller passes to SetPeriodMatchups and what shares its array
    sessions,          \* two clients of one league, each with the snapshot it fetched
    remote,            \* the schedule the remote holds for that league
    editor             \* a RosterEditor

vars == <<page, pc, setup, last, extraction, counters, caller, sessions, remote, editor>>

\* the variables by the part of the program they belong to
leagueVars == <<page, pc, setup, last>>
extractVars == <<extraction, counters>>
sessionVars == <<sessions, remote>>

\* a capture group that did not take part in a match, a value not there
None == "<none>"

(***************************************************************************)
(* Bounds of the model.                                                    *)
(***************************************************************************)
\* longest pair list, on a page or as the argument of SetPeriodMatchups
MaxPairs == 2
\* most addTeam() declarations on a page
MaxDecls == 2

(***************************************************************************)
(* Strings: strconv.Itoa, strings.Join, byte order, url.QueryEscape.       *)
(***************************************************************************)
Char(s, i) == SubSeq(s, i, i)

Digits == "0123456789"

RECURSIVE Itoa(_)
Itoa(n) ==
    IF n < 0 THEN "-" \o Itoa(0 - n)
    ELSE IF n < 10 THEN Char(Digits, n + 1)
    ELSE Itoa(n \div 10) \o Char(Digits, (n % 10) + 1)

RECURSIVE Join(_, _)
Join(parts, sep) ==
    IF Len(parts) = 0 THEN ""
    ELSE IF Len(parts) = 1 THEN parts[1]
    ELSE parts[1] \o sep \o Join(Tail(parts), sep)

\* the characters the model uses, in ascending byte order
Alphabet == " \"%&'+,-.0123456789=@ABCDEFGHIJKLMNOPQRSTUVWXYZ_abcdefghijklmnopqrstuvwxyz|~"

CharOrdTable ==
    [c \in {Char(Alphabet, i) : i \in 1..Len(Alphabet)} |->
        CHOOSE i \in 1..Len(Alphabet) : Char(Alphabet, i) = c]

CharOrd(c) == CharOrdTable[c]

\* a < b in byte order, a and b agreeing before position i
RECURSIVE StrLessFrom(_, _, _)
StrLessFrom(a, b, i) ==
    IF i > Len(b) THEN FALSE
    ELSE IF i > Len(a) THEN TRUE
    ELSE IF Char(a, i) = Char(b, i) THEN StrLessFrom(a, b, i + 1)
    ELSE CharOrd(Char(a, i)) < CharOrd(Char(b, i))

StrLess(a, b) == StrLessFrom(a, b, 1)

\* strings.Contains(s, c), c one byte
Contains(s, c) == \E i \in 1..Len(s) : Char(s, i) = c

HasPrefix(s, p) == Len(s) >= Len(p) /\ SubSeq(s, 1, Len(p)) = p

\* url.QueryEscape of one byte: unreserved bytes stay, a space becomes "+",
\* every other byte becomes %XX
Unreserved ==
    LET u == "-.0123456789ABCDEFGHIJKLMNOPQRSTUVWXYZ_abcdefghijklmnopqrstuvwxyz~"
    IN {Char(u, i) : i \in 1..Len(u)}

EscapeChar(c) ==
    IF c \in Unreserved THEN c
    ELSE CASE c = " " -> "+"
           [] c = "\"" -> "%22"
           [] c = "%" -> "%25"
           [] c = "&" -> "%26"
           [] c = "'" -> "%27"
           [] c = "+" -> "%2B"
           [] c = "," -> "%2C"
           [] c = "=" -> "%3D"
           [] c = "@" -> "%40"
           [] c = "|" -> "%7C"

RECURSIVE EscapeFrom(_, _)
EscapeFrom(s, i) ==
    IF i > Len(s) THEN "" ELSE EscapeChar(Char(s, i)) \o EscapeFrom(s, i + 1)

QueryEscape(s) == EscapeFrom(s, 1)

(***************************************************************************)
(* Go maps are functions; a range over a map visits its keys in an order   *)
(* the runtime picks: Orders(S) are the orders it may pick.                *)
(***************************************************************************)
EmptyMap == <<>>

Orders(S) ==
    {o \in [1..Cardinality(S) -> S] : \A i, j \in 1..Cardinality(S) : o[i] = o[j] => i = j}

SeqToSet(s) == {s[i] : i \in 1..Len(s)}

\* sort.Ints
RECURSIVE SortInts(_)
SortInts(s) ==
    IF Len(s) = 0 THEN <<>>
    ELSE LET m == CHOOSE x \in SeqToSet(s) : \A y \in SeqToSet(s) : x <= y
             i == CHOOSE k \in 1..Len(s) : s[k] = m
         IN <<m>> \o SortInts(SubSeq(s, 1, i - 1) \o SubSeq(s, i + 1, Len(s)))

\* sort.Strings over the keys of a map
RECURSIVE InsertString(_, _)
InsertString(x, sorted) ==
    IF Len(sorted) = 0 THEN <<x>>
    ELSE IF StrLess(x, Head(sorted)) THEN <<x>> \o sorted
    ELSE <<Head(sorted)>> \o InsertString(x, Tail(sorted))

RECURSIVE SortStrings(_)
SortStrings(S) ==
    IF S = {} THEN <<>>
    ELSE LET x == CHOOSE y \in S : TRUE
         IN InsertString(x, SortStrings(S \ {x}))

(***************************************************************************)
(* url.Values: a map from a key to the list of its values.                 *)
(***************************************************************************)
\* a Set that keeps the values the key holds
FormSetKeeping(form, k, v) ==
    [x \in DOMAIN form \cup {k} |->
        IF x # k THEN form[x]
        ELSE IF k \in DOMAIN form THEN Append(form[k], v) ELSE <<v>>]

FormSet(form, k, v) ==
    [x \in DOMAIN form \cup {k} |-> IF x = k THEN <<v>> ELSE form[x]]

\* for k, v := range m { form.Set(prefix+k, v) }: every turn of the loop sets
\* a key of its own (prefix+k for a key k of m), so the form the loop leaves
\* is the same in whatever order the range visits m
SetRange(form, m, prefix) ==
    LET keys == {prefix \o k : k \in DOMAIN m}
    IN [x \in DOMAIN form \cup keys |->
            IF x \in keys THEN <<m[SubSeq(x, Len(prefix) + 1, Len(x))]>> ELSE form[x]]

\* an Add that joins the values into one
AddEachJoined(form, key, list) ==
    IF Len(list) = 0 THEN form
    ELSE [x \in DOMAIN form \cup {key} |->
            IF x # key THEN form[x]
            ELSE IF key \in DOMAIN form THEN Append(form[key], Join(list, ","))
                 ELSE <<Join(list, ",")>>]

\* an Add that puts each value in front of the values the key holds
AddEachReversed(form, key, list) ==
    IF Len(list) = 0 THEN form
    ELSE [x \in DOMAIN form \cup {key} |->
            IF x # key THEN form[x]
            ELSE LET rev == [i \in 1..Len(list) |-> list[Len(list) + 1 - i]]
                 IN IF key \in DOMAIN form THEN rev \o form[key] ELSE rev]

\* for _, v := range list { form.Add(key, v) }
AddEach(form, key, list) ==
    IF Len(list) = 0 THEN form
    ELSE [x \in DOMAIN form \cup {key} |->
            IF x # key THEN form[x]
            ELSE IF key \in DOMAIN form THEN form[key] \o list ELSE list]

\* url.Values.Encode: keys sorted, key=value joined by "&", both escaped
EncodeKey(k, vs) == [i \in 1..Len(vs) |-> QueryEscape(k) \o "=" \o QueryEscape(vs[i])]

RECURSIVE Flatten(_)
Flatten(ss) == IF Len(ss) = 0 THEN <<>> ELSE Head(ss) \o Flatten(Tail(ss))

Encode(form) ==
    LET keys == SortStrings(DOMAIN form)
    IN Join(Flatten([i \in 1..Len(keys) |-> EncodeKey(keys[i], form[keys[i]])]), "&")

(***************************************************************************)
(* set_period_matchups.go: serializeMatchups and BuildFormBody.            *)
(* periodOrder is the order the range over setup.Matchups takes.           *)
(***************************************************************************)
\* a token with the home id first
PairTokenSwapped(pair) == pair.HomeTeamID \o "_" \o pair.AwayTeamID

\* line 166: one pair of a period's entry
PairToken(pair) == pair.AwayTeamID \o "_" \o pair.HomeTeamID

\* a serialisation that keeps the order of the range over the map
SerializeNoSort(s, periodOrder) ==
    [i \in 1..Len(periodOrder) |->
        LET p == periodOrder[i]
            pairs == s.Matchups[p]
        IN Join(<<Itoa(p)>> \o [j \in 1..Len(pairs) |-> PairToken(pairs[j])], "|")]

serializeMatchups(s, periodOrder) ==
    LET periods == SortInts(periodOrder)
    IN [i \in 1..Len(periods) |->
            LET p == periods[i]
                pairs == s.Matchups[p]
            IN Join(<<Itoa(p)>> \o [j \in 1..Len(pairs) |-> PairToken(pairs[j])], "|")]

\* a hidden-field loop with no override
HiddenVerbatim(hidden) == hidden

HiddenOverride(hidden) ==
    [n \in DOMAIN hidden |-> IF n = "h2hConfigChangesMade" THEN "y" ELSE hidden[n]]

\* a form that carries the entry of the edited period alone
BuildFormBodyEditedOnly(s, period, periodOrder) ==
    AddEach(EmptyMap, "matchups",
            serializeMatchups([s EXCEPT !.Matchups = [p \in {period} |-> @[p]]], <<period>>))

BuildFormBody(s, period, periodOrder) ==
    LET cfg == s.FormConfig
        f1 == SetRange(EmptyMap, HiddenOverride(cfg.HiddenFields), "")
        f2 == SetRange(f1, cfg.SelectFields, "")
        f3 == SetRange(f2, cfg.CheckboxFields, "")
        f4 == SetRange(f3, cfg.TeamNames, "teamName_")
        f5 == SetRange(f4, cfg.TeamShortNames, "teamShortName_")
        f6 == SetRange(f5, cfg.OwnerEmailFields, "")
        f7 == SetRange(f6, cfg.DivisionNames, "divisionName_")
        f8 == AddEach(f7, "~~divisions", cfg.Divisions)
        f9 == FormSet(FormSet(FormSet(FormSet(FormSet(FormSet(f8,
                "tabId", "Matchups"),
                "gotoNextPage", "false"),
                "divisionName", ""),
                "inviteMessage", ""),
                "calculatedHeadToHeadOpponentType", "1"),
                "playoffMatchupSetConfigId", "")
        f10 == FormSet(FormSet(f9,
                "matchupScoringPeriodToEdit", Itoa(period)),
                "matchupsEditedManually", "true")
    IN AddEach(f10, "matchups", serializeMatchups(s, periodOrder))

\* the orders the range over s.Matchups may take
RangeOrders(s) == Orders(DOMAIN s.Matchups)

(***************************************************************************)
(* get_league_setup_matchups.go: the extractors.  A page is given as the   *)
(* matches its patterns find, in source order; a result is [err, val],     *)
(* err = "" standing for nil.                                              *)
(***************************************************************************)
Ok(v) == [err |-> "", val |-> v]
Err(e) == [err |-> e, val |-> EmptyMap]

\* strings.SplitN(s, sep, 2), sep one byte
RECURSIVE IndexOf(_, _)
IndexOf(s, c) ==
    IF Len(s) = 0 THEN 0
    ELSE IF Head(s) = c THEN 1
    ELSE LET r == IndexOf(Tail(s), c) IN IF r = 0 THEN 0 ELSE r + 1

\* a split at the last separator
SplitAtLast(s, sep) ==
    LET at == {i \in 1..Len(s) : Char(s, i) = sep}
    IN IF at = {} THEN <<s>>
       ELSE LET i == CHOOSE k \in at : \A other \in at : other <= k
            IN <<SubSeq(s, 1, i - 1), SubSeq(s, i + 1, Len(s))>>

SplitN2(s, sep) ==
    LET i == IndexOf(s, sep)
    IN IF i = 0 THEN <<s>> ELSE <<SubSeq(s, 1, i - 1), SubSeq(s, i + 1, Len(s))>>

\* strconv.Atoi of a match of \d+; more digits than an int holds is a range error
RECURSIVE AtoiDigits(_)
AtoiDigits(s) ==
    IF Len(s) = 0 THEN 0
    ELSE AtoiDigits(SubSeq(s, 1, Len(s) - 1)) * 10 + (CharOrd(Char(s, Len(s))) - CharOrd("0"))

AtoiFails(s) == Len(s) > 19

Put(m, k, v) == [x \in DOMAIN m \cup {k} |-> IF x = k THEN v ELSE m[x]]

\* the pairs of one period's array; an error when a pair string holds no "_"
RECURSIVE ParsePairs(_)
ParsePairs(strs) ==
    IF Len(strs) = 0 THEN Ok(<<>>)
    ELSE LET parts == SplitN2(Head(strs), "_")
         IN IF Len(parts) # 2 THEN Err("invalid matchup pair format")
            ELSE LET rest == ParsePairs(Tail(strs))
                 IN IF rest.err # "" THEN rest
                    ELSE Ok(<<[AwayTeamID |-> parts[1], HomeTeamID |-> parts[2]]>> \o rest.val)

RECURSIVE ParsePeriods(_, _)
ParsePeriods(pms, result) ==
    IF Len(pms) = 0 THEN Ok(result)
    ELSE LET pm == Head(pms)
         IN IF AtoiFails(pm.period) THEN Err("invalid period number")
            ELSE LET pairs == ParsePairs(pm.pairs)
                 IN IF pairs.err # "" THEN pairs
                    ELSE ParsePeriods(Tail(pms), Put(result, AtoiDigits(pm.period), pairs.val))

parseMatchupMap(html) ==
    IF ~html.hasMap THEN Err("matchupMap not found in HTML")
    ELSE IF Len(html.periods) = 0 THEN Err("no periods found in matchupMap")
    ELSE ParsePeriods(html.periods, EmptyMap)

\* a lookup that finds no team, so that every declaration opens a new one
TeamIndexNone(teams, teamID) == 0

\* lines 159, 187: teamIndex[teamID], 0 when the id is not in the map, else the
\* position of its team
TeamIndex(teams, teamID) ==
    IF \E i \in 1..Len(teams) : teams[i].TeamID = teamID
    THEN CHOOSE i \in 1..Len(teams) : teams[i].TeamID = teamID
    ELSE 0

\* a team loop that never advances its counter
RECURSIVE TeamsLoopStuck(_, _, _)
TeamsLoopStuck(matches, teams, uniqueTempUserID) ==
    IF Len(matches) = 0 THEN teams
    ELSE LET m == Head(matches)
             userID == IF m.userID = "NULL" THEN "NULL_" \o Itoa(uniqueTempUserID) ELSE m.userID
             owner == [Email |-> m.email, UserID |-> userID,
                       IsCommissioner |-> m.isCommissioner, JoinedLeague |-> m.joinedLeague]
             idx == TeamIndex(teams, m.teamID)
         IN IF idx # 0
            THEN TeamsLoopStuck(Tail(matches),
                                [teams EXCEPT ![idx].Owners = Append(@, owner)], uniqueTempUserID)
            ELSE TeamsLoopStuck(Tail(matches),
                                Append(teams, [TeamID |-> m.teamID, Name |-> m.name,
                                               ShortName |-> m.shortName, Owners |-> <<owner>>]),
                                uniqueTempUserID)

RECURSIVE TeamsLoop(_, _, _)
TeamsLoop(matches, teams, uniqueTempUserID) ==
    IF Len(matches) = 0 THEN teams
    ELSE LET m == Head(matches)
             isNull == m.userID = "NULL"
             userID == IF isNull THEN "NULL_" \o Itoa(uniqueTempUserID) ELSE m.userID
             next == IF isNull THEN uniqueTempUserID + 1 ELSE uniqueTempUserID
             owner == [Email |-> m.email, UserID |-> userID,
                       IsCommissioner |-> m.isCommissioner, JoinedLeague |-> m.joinedLeague]
             idx == TeamIndex(teams, m.teamID)
         IN IF idx # 0
            THEN TeamsLoop(Tail(matches),
                           [teams EXCEPT ![idx].Owners = Append(@, owner)], next)
            ELSE TeamsLoop(Tail(matches),
                           Append(teams, [TeamID |-> m.teamID, Name |-> m.name,
                                          ShortName |-> m.shortName, Owners |-> <<owner>>]),
                           next)

parseTeams(html) ==
    IF Len(html.decls) = 0 THEN Err("no addTeam() calls found in HTML")
    ELSE Ok(TeamsLoop(html.decls, <<>>, 0))

\* parseDivisions: first the divisionName_ inputs, then the membership calls
RECURSIVE DivNamesLoop(_, _)
DivNamesLoop(matches, divs) ==
    IF Len(matches) = 0 THEN divs
    ELSE LET m == Head(matches)
         IN IF \E i \in 1..Len(divs) : divs[i].DivisionID = m.id
            THEN DivNamesLoop(Tail(matches), divs)
            ELSE DivNamesLoop(Tail(matches),
                              Append(divs, [DivisionID |-> m.id, Name |-> m.name, TeamIDs |-> <<>>]))

RECURSIVE DivTeamsLoop(_, _)
DivTeamsLoop(matches, divs) ==
    IF Len(matches) = 0 THEN divs
    ELSE LET m == Head(matches)
             known == {i \in 1..Len(divs) : divs[i].DivisionID = m.div}
         IN IF known = {} THEN DivTeamsLoop(Tail(matches), divs)
            ELSE LET i == CHOOSE k \in known : TRUE
                 IN IF m.team \in SeqToSet(divs[i].TeamIDs)
                    THEN DivTeamsLoop(Tail(matches), divs)
                    ELSE DivTeamsLoop(Tail(matches),
                                      [divs EXCEPT ![i].TeamIDs = Append(@, m.team)])

parseDivisions(html) ==
    IF Len(html.divNames) = 0 THEN Err("no division names found in HTML")
    ELSE Ok(DivTeamsLoop(html.divTeams, DivNamesLoop(html.divNames, <<>>)))

\* parseFormConfig, scan by scan; cfg is the config under construction
RECURSIVE HiddenLoop(_, _)
HiddenLoop(tags, cfg) ==
    IF Len(tags) = 0 THEN cfg
    ELSE LET t == Head(tags)
             value == IF t.value = None THEN "" ELSE t.value
         IN IF t.name = None THEN HiddenLoop(Tail(tags), cfg)
            ELSE IF Contains(t.name, "'") \/ Contains(value, "'") THEN HiddenLoop(Tail(tags), cfg)
            ELSE IF HasPrefix(t.name, "_")
            THEN HiddenLoop(Tail(tags), [cfg EXCEPT !.CheckboxFields = Put(@, t.name, value)])
            ELSE HiddenLoop(Tail(tags), [cfg EXCEPT !.HiddenFields = Put(@, t.name, value)])

RECURSIVE parseSelectFields(_, _)
parseSelectFields(sels, cfg) ==
    IF Len(sels) = 0 THEN cfg
    ELSE LET sm == Head(sels)
         IN IF sm.selected = None THEN parseSelectFields(Tail(sels), cfg)
            ELSE parseSelectFields(Tail(sels), [cfg EXCEPT !.SelectFields = Put(@, sm.name, sm.selected)])

RECURSIVE TextLoop(_, _)
TextLoop(tags, cfg) ==
    IF Len(tags) = 0 THEN cfg
    ELSE LET t == Head(tags)
         IN IF t.name = None \/ t.value = None THEN TextLoop(Tail(tags), cfg)
            ELSE IF t.name = "startDate" \/ t.name = "endDate"
            THEN TextLoop(Tail(tags), [cfg EXCEPT !.HiddenFields = Put(@, t.name, t.value)])
            ELSE TextLoop(Tail(tags), cfg)

RECURSIVE CheckboxLoop(_, _)
CheckboxLoop(tags, cfg) ==
    IF Len(tags) = 0 THEN cfg
    ELSE LET t == Head(tags)
         IN IF t.name = None \/ t.value = None THEN CheckboxLoop(Tail(tags), cfg)
            ELSE CheckboxLoop(Tail(tags), [cfg EXCEPT !.HiddenFields = Put(@, t.name, t.value)])

\* a loop that files each name under the other map
RECURSIVE TeamNamesLoopSwapped(_, _)
TeamNamesLoopSwapped(teams, cfg) ==
    IF Len(teams) = 0 THEN cfg
    ELSE LET team == Head(teams)
         IN TeamNamesLoopSwapped(Tail(teams),
                [cfg EXCEPT !.TeamNames = Put(@, team.TeamID, team.ShortName),
                            !.TeamShortNames = Put(@, team.TeamID, team.Name)])

RECURSIVE TeamNamesLoop(_, _)
TeamNamesLoop(teams, cfg) ==
    IF Len(teams) = 0 THEN cfg
    ELSE LET team == Head(teams)
         IN TeamNamesLoop(Tail(teams),
                [cfg EXCEPT !.TeamNames = Put(@, team.TeamID, team.Name),
                            !.TeamShortNames = Put(@, team.TeamID, team.ShortName)])

\* an owner loop with no test of the owner's flags
RECURSIVE OwnersLoopAll(_, _, _)
OwnersLoopAll(owners, teamID, cfg) ==
    IF Len(owners) = 0 THEN cfg
    ELSE LET owner == Head(owners)
             key == "teamOwnerEmail," \o owner.Email \o "," \o teamID \o "," \o owner.UserID
         IN OwnersLoopAll(Tail(owners), teamID, [cfg EXCEPT !.OwnerEmailFields = Put(@, key, owner.Email)])

RECURSIVE OwnersLoop(_, _, _)
OwnersLoop(owners, teamID, cfg) ==
    IF Len(owners) = 0 THEN cfg
    ELSE LET owner == Head(owners)
             key == "teamOwnerEmail," \o owner.Email \o "," \o teamID \o "," \o owner.UserID
         IN IF ~owner.IsCommissioner /\ ~owner.JoinedLeague
            THEN OwnersLoop(Tail(owners), teamID, [cfg EXCEPT !.OwnerEmailFields = Put(@, key, owner.Email)])
            ELSE OwnersLoop(Tail(owners), teamID, cfg)

RECURSIVE OwnerEmailsLoop(_, _)
OwnerEmailsLoop(teams, cfg) ==
    IF Len(teams) = 0 THEN cfg
    ELSE OwnerEmailsLoop(Tail(teams), OwnersLoop(Head(teams).Owners, Head(teams).TeamID, cfg))

RECURSIVE DivisionFieldsLoop(_, _)
DivisionFieldsLoop(divs, cfg) ==
    IF Len(divs) = 0 THEN cfg
    ELSE DivisionFieldsLoop(Tail(divs), [cfg EXCEPT !.DivisionNames = Put(@, Head(divs).DivisionID, Head(divs).Name)])

RECURSIVE DivisionEntriesLoop(_, _)
DivisionEntriesLoop(divs, cfg) ==
    IF Len(divs) = 0 THEN cfg
    ELSE LET div == Head(divs)
         IN IF Len(div.TeamIDs) > 0
            THEN DivisionEntriesLoop(Tail(divs),
                    [cfg EXCEPT !.Divisions = Append(@, div.DivisionID \o "=" \o Join(div.TeamIDs, "|"))])
            ELSE DivisionEntriesLoop(Tail(divs), cfg)

EmptyFormConfig ==
    [HiddenFields |-> EmptyMap, SelectFields |-> EmptyMap, CheckboxFields |-> EmptyMap,
     TeamNames |-> EmptyMap, TeamShortNames |-> EmptyMap, OwnerEmailFields |-> EmptyMap,
     DivisionNames |-> EmptyMap, Divisions |-> <<>>]

parseFormConfig(html, teams, divisions) ==
    LET c1 == HiddenLoop(html.hidden, EmptyFormConfig)
        c2 == parseSelectFields(html.selects, c1)
        c3 == TextLoop(html.texts, c2)
        c4 == CheckboxLoop(html.checkboxes, c3)
        c5 == TeamNamesLoop(teams, c4)
        c6 == OwnerEmailsLoop(teams, c5)
        c7 == DivisionFieldsLoop(divisions, c6)
    IN Ok(DivisionEntriesLoop(divisions, c7))

\* the zero snapshot: what the caller holds when no fetch has succeeded
NilSetup ==
    [Teams |-> <<>>, Divisions |-> <<>>, Matchups |-> EmptyMap, FormConfig |-> EmptyFormConfig]

\* an assembly that goes on without divisions
GetLeagueSetupMatchupsLenient(html, fetchOk) ==
    IF ~fetchOk THEN Err("failed to fetch league setup page")
    ELSE LET matchups == parseMatchupMap(html)
         IN IF matchups.err # "" THEN Err("failed to parse matchup map: " \o matchups.err)
            ELSE LET teams == parseTeams(html)
                 IN IF teams.err # "" THEN Err("failed to parse teams: " \o teams.err)
                    ELSE LET divisions == parseDivisions(html)
                             divs == IF divisions.err # "" THEN <<>> ELSE divisions.val
                             formConfig == parseFormConfig(html, teams.val, divs)
                         IN Ok([Teams |-> teams.val, Divisions |-> divs,
                                Matchups |-> matchups.val, FormConfig |-> formConfig.val])

GetLeagueSetupMatchups(html, fetchOk) ==
    IF ~fetchOk THEN Err("failed to fetch league setup page")
    ELSE LET matchups == parseMatchupMap(html)
         IN IF matchups.err # "" THEN Err("failed to parse matchup map: " \o matchups.err)
            ELSE LET teams == parseTeams(html)
                 IN IF teams.err # "" THEN Err("failed to parse teams: " \o teams.err)
                    ELSE LET divisions == parseDivisions(html)
                         IN IF divisions.err # "" THEN Err("failed to parse divisions: " \o divisions.err)
                            ELSE LET formConfig == parseFormConfig(html, teams.val, divisions.val)
                                 IN IF formConfig.err # "" THEN Err("failed to parse form config: " \o formConfig.err)
                                    ELSE Ok([Teams |-> teams.val, Divisions |-> divisions.val,
                                             Matchups |-> matchups.val, FormConfig |-> formConfig.val])

\* GetTeamByID: <<team>> for the first team with that id, <<>> for nil
GetTeamByID(s, teamID) ==
    LET hits == {i \in 1..Len(s.Teams) : s.Teams[i].TeamID = teamID}
    IN IF hits = {} THEN <<>>
       ELSE <<s.Teams[CHOOSE i \in hits : \A j \in hits : i <= j]>>

\* the keys in the order the range took, without the sort
GetSortedPeriodsRangeOrder(s, periodOrder) == periodOrder

\* GetSortedPeriods, the range over setup.Matchups taking periodOrder
GetSortedPeriods(s, periodOrder) == SortInts(periodOrder)

(***************************************************************************)
(* SetPeriodMatchups, step by step.                                        *)
(***************************************************************************)
\* http.StatusFound
StatusFound == 302

\* a validation that forgets to look the period up
ValidateSkipsPeriod(s, period, matchups) ==
    IF Len(matchups) = 0 THEN "matchups must not be empty" ELSE ""

\* lines 25-30: the error validation returns, "" when it passes
Validate(s, period, matchups) ==
    IF period \notin DOMAIN s.Matchups THEN "period not found in setup matchups"
    ELSE IF Len(matchups) = 0 THEN "matchups must not be empty"
    ELSE ""

\* a mutation that is lost (made on a copy of the map)
MutateLost(s, period, matchups) == s

\* a mutation that merges the new pairs into the period's old ones
MutateAppend(s, period, matchups) ==
    [s EXCEPT !.Matchups =
        Put(@, period, (IF period \in DOMAIN @ THEN @[period] ELSE <<>>) \o matchups)]

\* a mutation that replaces the whole schedule by the one period
MutateReplacesMap(s, period, matchups) ==
    [s EXCEPT !.Matchups = Put(EmptyMap, period, matchups)]

\* line 33: setup.Matchups[period] = matchups
Mutate(s, period, matchups) == [s EXCEPT !.Matchups = Put(@, period, matchups)]

\* the policy of a client without CheckRedirect
CheckRedirectDefault == "follow"

\* lines 54-59: the policy of noRedirectClient on a redirect response
CheckRedirect == "use last response"

\* line 61: noRedirectClient.Do(req).  env is what the network does: netOk, whether
\* a response arrives; status, the status of the response to the POST.  A client
\* that follows a redirect sends a second request and returns what that one gets.
IsRedirect(status) == status \in {301, 302, 303, 307, 308}

Do(policy, env) ==
    IF ~env.netOk THEN [err |-> TRUE, sent |-> 1, status |-> 0]
    ELSE IF policy = "follow" /\ IsRedirect(env.status)
    THEN [err |-> FALSE, sent |-> 2, status |-> env.next]
    ELSE [err |-> FALSE, sent |-> 1, status |-> env.status]

\* a classification that takes every redirect status for a success
ClassifyAnyRedirect(status) ==
    IF status \in 300..399 THEN "" ELSE "expected 302 redirect on success"

\* lines 69-78: the error for a response status, "" for nil
Classify(status) ==
    IF status # StatusFound THEN "expected 302 redirect on success" ELSE ""

\* lines 38-78: what the call does once the snapshot is mutated and the form built
Submit(env) ==
    IF ~env.leagueIDOk THEN [err |-> "failed to create POST request", sent |-> 0, status |-> 0]
    ELSE IF ~env.cookiesOk THEN [err |-> "failed to get cookies", sent |-> 0, status |-> 0]
    ELSE LET resp == Do(CheckRedirect, env)
         IN IF resp.err THEN [err |-> "failed to send POST request", sent |-> resp.sent, status |-> 0]
            ELSE [err |-> Classify(resp.status), sent |-> resp.sent, status |-> resp.status]

(***************************************************************************)
(* The pages, the arguments and the environments the model draws from.     *)
(***************************************************************************)
PM(period, pairs) == [period |-> period, pairs |-> pairs]

AllSchedules ==
    { [hasMap |-> FALSE, periods |-> <<>>],
      [hasMap |-> TRUE, periods |-> <<>>],
      [hasMap |-> TRUE, periods |-> <<PM("1", <<"a1b1">>)>>],
      [hasMap |-> TRUE, periods |-> <<PM("10", <<"b1_a_1">>), PM("3", <<"a1_b1", "c1_-1">>)>>],
      [hasMap |-> TRUE, periods |-> <<PM("1", <<"a1_b1">>), PM("3", <<>>)>>],
      [hasMap |-> TRUE, periods |-> <<PM("3", <<"a1_b1", "c1_d1", "e1_-1">>)>>] }

Schedules ==
    {sc \in AllSchedules : \A i \in 1..Len(sc.periods) : Len(sc.periods[i].pairs) <= MaxPairs}

Decl(name, shortName, email, teamID, userID, isCommissioner, joinedLeague) ==
    [name |-> name, shortName |-> shortName, email |-> email, teamID |-> teamID,
     userID |-> userID, isCommissioner |-> isCommissioner, joinedLeague |-> joinedLeague]

AllDeclLists ==
    { <<>>,
      <<Decl("Aces", "ACE", "a@x.io", "a1", "u1", TRUE, TRUE)>>,
      <<Decl("Aces", "ACE", "a@x.io", "a1", "u1", TRUE, TRUE),
        Decl("Bats", "BAT", "b@x.io", "b1", "NULL", FALSE, FALSE)>>,
      <<Decl("Aces", "ACE", "a@x.io", "a1", "NULL", FALSE, FALSE),
        Decl("Aces", "ACE", "c@x.io", "a1", "NULL", FALSE, FALSE)>>,
      <<Decl("Aces", "ACE", "a@x.io", "a1", "u1", TRUE, TRUE),
        Decl("Bye", "BYE", "", "-1", "u9", FALSE, TRUE)>>,
      <<Decl("Aces", "ACE", "a@x.io", "a1", "NULL", FALSE, FALSE),
        Decl("Bats", "BAT", "b@x.io", "b1", "NULL", FALSE, TRUE),
        Decl("Aces", "ACE", "c@x.io", "a1", "u3", TRUE, TRUE)>>,
      <<Decl("Aces", "ACE", "a@x.io", "a1", "u1", TRUE, TRUE),
        Decl("Bats", "BAT", "b@x.io", "b1", "NULL", FALSE, FALSE),
        Decl("Cubs", "CUB", "c@x.io", "c1", "NULL", FALSE, FALSE),
        Decl("Bats", "BAT", "d@x.io", "b1", "NULL", FALSE, FALSE)>> }

DeclLists == {d \in AllDeclLists : Len(d) <= MaxDecls}

DivName(id, name) == [id |-> id, name |-> name]
DivTeam(div, team) == [div |-> div, team |-> team]

DivisionBlocks ==
    { [divNames |-> <<>>, divTeams |-> <<DivTeam("d1", "a1")>>],
      [divNames |-> <<DivName("d1", "East")>>,
       divTeams |-> <<DivTeam("d1", "a1"), DivTeam("d1", "b1")>>],
      [divNames |-> <<DivName("d1", "East"), DivName("d2", "West"), DivName("d1", "Again"),
                      DivName("d3", "North")>>,
       divTeams |-> <<DivTeam("d3", "c1"), DivTeam("d1", "b1"), DivTeam("d1", "b1"),
                      DivTeam("d9", "a1"), DivTeam("d1", "z9")>>] }

Tag(name, value) == [name |-> name, value |-> value]
Sel(name, selected) == [name |-> name, selected |-> selected]

FormBlocks ==
    { [hidden |-> <<Tag("h2hConfigChangesMade", "n"), Tag("leagueName", "My League"),
                    Tag("_autoDraft", "on"), Tag(None, "x"), Tag("sport", None)>>,
       selects |-> <<Sel("scoringType", "H2H"), Sel("draftType", None)>>,
       texts |-> <<Tag("startDate", "2026-03-01"), Tag("commissionerNote", "hello")>>,
       checkboxes |-> <<Tag("autoDraft", "true")>>],
      [hidden |-> <<Tag("matchups", "7|x1_y1"), Tag("tabId", "Teams"),
                    Tag("sport", "MLB"), Tag("row' + id + '", "0"), Tag("note", "it's")>>,
       selects |-> <<Sel("matchupScoringPeriodToEdit", "5"), Sel("sport", "NHL"),
                     Sel("pick' + id + '", "1")>>,
       texts |-> <<Tag("endDate", "'26-09-30")>>,
       checkboxes |-> <<Tag("opt' + id + '", "on")>>] }

Pages ==
    { [hasMap |-> sc.hasMap, periods |-> sc.periods, decls |-> d,
       divNames |-> dv.divNames, divTeams |-> dv.divTeams,
       hidden |-> f.hidden, selects |-> f.selects, texts |-> f.texts, checkboxes |-> f.checkboxes] :
      sc \in Schedules, d \in DeclLists, dv \in DivisionBlocks, f \in FormBlocks }

Pair(away, home) == [AwayTeamID |-> away, HomeTeamID |-> home]

AllReplacements ==
    { <<>>,
      <<Pair("c1", "b1"), Pair("a1", "-1")>>,
      <<Pair("b1", "c1"), Pair("d1", "a1"), Pair("e1", "-1")>> }

Replacements == {l \in AllReplacements : Len(l) <= MaxPairs}

PeriodArgs == {1, 3, 10, 999}

Statuses == {200, 301, 302, 500}

Env(leagueIDOk, cookiesOk, netOk, status) ==
    [leagueIDOk |-> leagueIDOk, cookiesOk |-> cookiesOk, netOk |-> netOk,
     status |-> status, next |-> 200]

Envs ==
    {Env(FALSE, TRUE, TRUE, 302), Env(TRUE, FALSE, TRUE, 302), Env(TRUE, TRUE, FALSE, 302)}
    \cup {Env(TRUE, TRUE, TRUE, st) : st \in Statuses}

(***************************************************************************)
(* The state machine.                                                      *)
(***************************************************************************)
\* no parseTeams call in progress
NoExtraction == <<>>
NoCounters == <<>>
NoExtract == extraction = NoExtraction /\ counters = NoCounters

\* no caller's slice, no session, no editor
NoCaller == caller = <<>>
NoSessions == sessions = <<>> /\ remote = <<>>
NoEditor == editor = <<>>

NoOp ==
    [op |-> "none", period |-> 0, matchups |-> <<>>, pre |-> NilSetup, err |-> "",
     validated |-> FALSE, sent |-> 0, status |-> 0, form |-> EmptyMap, body |-> "", prev |-> None]

Init ==
    /\ page \in Pages
    /\ pc = "new"
    /\ setup = NilSetup
    /\ last = NoOp
    /\ NoExtract
    /\ NoCaller
    /\ NoSessions
    /\ NoEditor

\* snapshot, err := client.GetLeagueSetupMatchups()
Fetch ==
    /\ pc = "new"
    /\ \E fetchOk \in BOOLEAN :
          LET r == GetLeagueSetupMatchups(page, fetchOk)
          IN /\ pc' = IF r.err = "" THEN "fetched" ELSE "failed"
             /\ setup' = IF r.err = "" THEN r.val ELSE NilSetup
             /\ last' = [NoOp EXCEPT !.op = "fetch", !.err = r.err]
    /\ UNCHANGED <<page, extractVars, caller, sessionVars, editor>>

\* SetPeriodMatchups(setup, period, matchups) on the snapshot s, the range over the
\* mutated map taking periodOrder and the network doing env: validation, the in-place
\* mutation, the form body, the request and the classification of its outcome.
Call(s, period, matchups, periodOrder, env) ==
    LET verr == Validate(s, period, matchups)
        s1 == Mutate(s, period, matchups)
    IN IF verr # ""
       THEN [setup |-> s, validated |-> FALSE, err |-> verr, sent |-> 0, status |-> 0,
             form |-> EmptyMap]
       ELSE LET r == Submit(env)
            IN [setup |-> s1, validated |-> TRUE, err |-> r.err, sent |-> r.sent,
                status |-> r.status, form |-> BuildFormBody(s1, period, periodOrder)]

\* the orders and the networks a call may meet; a call that validation rejects returns
\* before it reads either
Meets(s, period, matchups) ==
    IF Validate(s, period, matchups) # ""
    THEN {<<(<<>>), CHOOSE env \in Envs : TRUE>>}
    ELSE RangeOrders(Mutate(s, period, matchups)) \X Envs

\* the call on the snapshot the client holds
Handle(period, matchups) ==
    \E met \in Meets(setup, period, matchups) :
        \E r \in {Call(setup, period, matchups, met[1], met[2])} :
           /\ setup' = r.setup
           /\ last' = [NoOp EXCEPT !.op = "set", !.period = period, !.matchups = matchups,
                                   !.pre = setup, !.validated = r.validated, !.err = r.err,
                                   !.sent = r.sent, !.status = r.status, !.form = r.form]

\* err := client.SetPeriodMatchups(setup, period, matchups)
\* The caller stops at the first call that returns an error, as the upload loop of
\* examples/auth_client_only/upload_schedule/main.go does (log.Fatalf, lines 189-193).
\* No snapshot is lost by that: the mutation precedes the request, so the snapshot a
\* failed request leaves is the one the successful request with these arguments leaves,
\* and a rejected call leaves the snapshot it was given.
SetPeriodMatchups ==
    /\ pc = "fetched"
    /\ last.op = "set" => last.err = ""
    /\ \E period \in PeriodArgs :
       \E matchups \in Replacements \cup {setup.Matchups[p] : p \in DOMAIN setup.Matchups \cap {period}} :
          Handle(period, matchups)
    /\ UNCHANGED <<page, pc, extractVars, caller, sessionVars, editor>>

\* body := BuildFormBody(setup, period).Encode(), by a caller that serialises the
\* snapshot it fetched without mutating it
Serialize ==
    /\ pc = "fetched"
    /\ last.op \in {"fetch", "build"}
    /\ \E period \in PeriodArgs : \E periodOrder \in RangeOrders(setup) :
          LET formBody == BuildFormBody(setup, period, periodOrder)
          IN last' = [NoOp EXCEPT !.op = "build", !.period = period, !.pre = setup,
                                  !.form = formBody, !.body = Encode(formBody),
                                  !.prev = IF last.op = "build" /\ last.period = period
                                           THEN last.body ELSE None]
    /\ UNCHANGED <<page, pc, setup, extractVars, caller, sessionVars, editor>>

Next == Fetch \/ SetPeriodMatchups \/ Serialize

Spec == Init /\ [][Next]_vars

(***************************************************************************)
(* Claims.                                                                 *)
(***************************************************************************)
SetCall == pc = "fetched" /\ last.op = "set"
Passed == SetCall /\ last.validated
Rejected ==
    SetCall /\ (last.period \notin DOMAIN last.pre.Matchups \/ Len(last.matchups) = 0)

\* the text of an entry before its first "|", and the tokens after it
RECURSIVE SplitAll(_, _)
SplitAll(str, sep) ==
    LET i == IndexOf(str, sep)
    IN IF i = 0 THEN <<str>>
       ELSE <<SubSeq(str, 1, i - 1)>> \o SplitAll(SubSeq(str, i + 1, Len(str)), sep)

\* C1: a call whose period is not a key of the schedule, or whose pair list is empty,
\* returns an error, sends no request, adds no period key and leaves every period's
\* pair list as it was.
C1_RejectedCallLeavesSnapshot ==
    Rejected =>
        /\ last.err # ""
        /\ last.sent = 0
        /\ DOMAIN setup.Matchups = DOMAIN last.pre.Matchups
        /\ \A p \in DOMAIN last.pre.Matchups : setup.Matchups[p] = last.pre.Matchups[p]

C1_Witness ==
    /\ Rejected
    /\ last.period \notin DOMAIN last.pre.Matchups
    /\ Len(last.matchups) > 0
    /\ Cardinality(DOMAIN last.pre.Matchups) >= 2

\* C2: once validation has passed, the period holds exactly the list given (nothing of
\* the old list kept), and the form the call built carries, for that period, the one
\* entry made of that list.
C2_ReplacesWholeList ==
    Passed =>
        /\ setup.Matchups[last.period] = last.matchups
        /\ LET ms == last.form["matchups"]
               mine == {i \in 1..Len(ms) : HasPrefix(ms[i], Itoa(last.period) \o "|")}
               want == Join(<<Itoa(last.period)>> \o
                            [j \in 1..Len(last.matchups) |->
                                last.matchups[j].AwayTeamID \o "_" \o last.matchups[j].HomeTeamID], "|")
           IN Cardinality(mine) = 1 /\ \A i \in mine : ms[i] = want

C2_Witness ==
    /\ Passed
    /\ last.pre.Matchups[last.period] # last.matchups
    /\ Len(last.pre.Matchups[last.period]) > 0

\* C3: a call changes nothing of the snapshot but the pair list of its period, whether
\* it succeeds or fails, and serialising changes nothing at all.
C3_Frame ==
    /\ SetCall =>
            /\ setup.Teams = last.pre.Teams
            /\ setup.Divisions = last.pre.Divisions
            /\ setup.FormConfig = last.pre.FormConfig
            /\ DOMAIN setup.Matchups = DOMAIN last.pre.Matchups
            /\ \A q \in DOMAIN last.pre.Matchups \ {last.period} :
                    setup.Matchups[q] = last.pre.Matchups[q]
    /\ (pc = "fetched" /\ last.op = "build") => setup = last.pre

C3_Witness ==
    /\ Passed
    /\ setup.Matchups[last.period] # last.pre.Matchups[last.period]
    /\ Cardinality(DOMAIN last.pre.Matchups) >= 2
    /\ last.err # ""

\* C4 as stated: with a response received, the call succeeds exactly when the status is
\* any redirect status (3xx).
C4_AnyRedirectSucceeds ==
    (Passed /\ last.status # 0) => (last.err = "" <=> last.status \in 300..399)

\* C4, amended: with a response received, the call succeeds exactly when the status is
\* 302; every other status, 200 and the other redirect statuses included, is an error.
C4_Only302Succeeds ==
    (Passed /\ last.status # 0) => (last.err = "" <=> last.status = 302)

C4_Witness == Passed /\ last.status = 301 /\ last.err # "" /\ last.sent = 1

\* C5 as stated: no request when validation or the cookies fail, exactly one otherwise.
C5_OneRequestUnlessValidationOrCookies ==
    SetCall =>
        last.sent = IF ~last.validated \/ last.err = "failed to get cookies" THEN 0 ELSE 1

\* C5, amended: no request when validation, the construction of the request or the
\* cookies fail, exactly one otherwise; a redirect is not followed, and no request
\* follows an error status or a network error.
C5_AtMostOneRequest ==
    SetCall =>
        last.sent = IF \/ ~last.validated
                       \/ last.err \in {"failed to create POST request", "failed to get cookies"}
                    THEN 0 ELSE 1

C5_Witness == Passed /\ last.sent = 1 /\ last.status = 302 /\ last.err = ""

\* the period an entry starts with
PeriodOf(entry) == AtoiDigits(SplitAll(entry, "|")[1])

Built == pc = "fetched" /\ (Passed \/ last.op = "build")

\* C6: the form holds under "matchups" exactly one value per period of the schedule,
\* the values in strictly ascending order of their periods.
C6_OneValuePerPeriod ==
    Built =>
        LET ms == last.form["matchups"]
        IN /\ Len(ms) = Cardinality(DOMAIN setup.Matchups)
           /\ {PeriodOf(ms[i]) : i \in 1..Len(ms)} = DOMAIN setup.Matchups
           /\ \A i \in 1..(Len(ms) - 1) : PeriodOf(ms[i]) < PeriodOf(ms[i + 1])

\* C7: every entry serializeMatchups makes is the period's number, then one token
\* away_home per pair of the period, in the order of its list and separated by "|"; a
\* bye is the token away_-1; period 3 holding [(c1,b1),(a1,-1)] gives "3|c1_b1|a1_-1".
C7_EntryFormat ==
    pc = "fetched" =>
        \A periodOrder \in RangeOrders(setup) :
            LET entries == serializeMatchups(setup, periodOrder)
            IN /\ \A i \in 1..Len(entries) :
                    LET toks == SplitAll(entries[i], "|")
                    IN \E p \in DOMAIN setup.Matchups :
                          /\ toks[1] = Itoa(p)
                          /\ Len(toks) = Len(setup.Matchups[p]) + 1
                          /\ \A j \in 1..Len(setup.Matchups[p]) :
                                LET pair == setup.Matchups[p][j]
                                IN /\ SplitN2(toks[j + 1], "_") = <<pair.AwayTeamID, pair.HomeTeamID>>
                                   /\ pair.HomeTeamID = "-1" =>
                                          toks[j + 1] = pair.AwayTeamID \o "_-1"
               /\ (/\ 3 \in DOMAIN setup.Matchups
                   /\ setup.Matchups[3] = <<Pair("c1", "b1"), Pair("a1", "-1")>>)
                      => \E i \in 1..Len(entries) : entries[i] = "3|c1_b1|a1_-1"

C7_Witness ==
    /\ Passed
    /\ last.period = 3
    /\ last.matchups = <<Pair("c1", "b1"), Pair("a1", "-1")>>
    /\ last.pre.Matchups[3] # last.matchups
    /\ \E i \in 1..Len(last.form["matchups"]) : last.form["matchups"][i] = "3|c1_b1|a1_-1"

\* C8: in an assembled snapshot "-1" is the id of no team: of no entry of Teams,
\* TeamNames or TeamShortNames; GetTeamByID finds no team for it and no teamName_-1
\* or teamShortName_-1 field is serialised.
C8_ByeIsNoTeam ==
    pc = "fetched" =>
        /\ \A i \in 1..Len(setup.Teams) : setup.Teams[i].TeamID # "-1"
        /\ "-1" \notin DOMAIN setup.FormConfig.TeamNames
        /\ "-1" \notin DOMAIN setup.FormConfig.TeamShortNames
        /\ GetTeamByID(setup, "-1") = <<>>
        /\ \A periodOrder \in RangeOrders(setup) :
              {"teamName_-1", "teamShortName_-1"} \cap DOMAIN BuildFormBody(setup, 1, periodOrder) = {}

\* C9: two serialisations of one unmutated snapshot, for one period argument, give the
\* same bytes, whatever order the ranges over the maps take.
C9_SameBytes ==
    (pc = "fetched" /\ last.op = "build" /\ last.prev # None) => last.body = last.prev

C9_Witness ==
    /\ pc = "fetched" /\ last.op = "build" /\ last.prev # None
    /\ Cardinality(DOMAIN setup.Matchups) >= 2
    /\ Len(last.body) > 0

\* C10: mutating a known period to the list it already holds and serialising gives
\* the list of "matchups" values that serialising before the mutation gives.
C10_SameListSameEntries ==
    (/\ SetCall
     /\ last.period \in DOMAIN last.pre.Matchups
     /\ last.matchups = last.pre.Matchups[last.period]) =>
        /\ \A before \in RangeOrders(last.pre) : \A after \in RangeOrders(setup) :
              serializeMatchups(setup, after) = serializeMatchups(last.pre, before)
        /\ last.validated =>
              \A before \in RangeOrders(last.pre) :
                  last.form["matchups"] = BuildFormBody(last.pre, last.period, before)["matchups"]

C10_Witness ==
    /\ Passed
    /\ last.matchups = last.pre.Matchups[last.period]
    /\ Cardinality(DOMAIN setup.Matchups) >= 2

(***************************************************************************)
(* The form against the snapshot it is built from.                         *)
(***************************************************************************)
\* a fresh snapshot serialised without a mutation
FreshBuild == pc = "fetched" /\ last.op = "build"

\* the maps BuildFormBody ranges over with form.Set, in the order of its loops, each
\* with the prefix its keys get
Sections(cfg) ==
    << [m |-> cfg.HiddenFields, prefix |-> ""],
       [m |-> cfg.SelectFields, prefix |-> ""],
       [m |-> cfg.CheckboxFields, prefix |-> ""],
       [m |-> cfg.TeamNames, prefix |-> "teamName_"],
       [m |-> cfg.TeamShortNames, prefix |-> "teamShortName_"],
       [m |-> cfg.OwnerEmailFields, prefix |-> ""],
       [m |-> cfg.DivisionNames, prefix |-> "divisionName_"] >>

SectionKeys(sec) == {sec.prefix \o k : k \in DOMAIN sec.m}

\* the keys BuildFormBody sets itself, after its loops
FixedKeys ==
    {"tabId", "gotoNextPage", "divisionName", "inviteMessage",
     "calculatedHeadToHeadOpponentType", "playoffMatchupSetConfigId",
     "matchupScoringPeriodToEdit", "matchupsEditedManually"}

\* the values form.Add puts under a key, after whatever a form.Set left there
Added(s, key, periodOrder) ==
    IF key = "~~divisions" THEN s.FormConfig.Divisions
    ELSE IF key = "matchups" THEN serializeMatchups(s, periodOrder)
    ELSE <<>>

IsSuffix(tail, whole) ==
    /\ Len(tail) <= Len(whole)
    /\ SubSeq(whole, Len(whole) - Len(tail) + 1, Len(whole)) = tail

\* C11 as stated: the form of a fresh snapshot holds every value of every extracted
\* map under its key, and the division and schedule lists in their order.
C11_EveryExtractedValue ==
    FreshBuild =>
        LET secs == Sections(setup.FormConfig)
        IN /\ \A i \in 1..Len(secs) : \A k \in DOMAIN secs[i].m :
                 /\ secs[i].prefix \o k \in DOMAIN last.form
                 /\ Head(last.form[secs[i].prefix \o k]) = secs[i].m[k]
           /\ \A periodOrder \in RangeOrders(setup) : \A key \in {"~~divisions", "matchups"} :
                 Len(Added(setup, key, periodOrder)) > 0 =>
                     /\ key \in DOMAIN last.form
                     /\ IsSuffix(Added(setup, key, periodOrder), last.form[key])

\* C11, amended: the form of a fresh snapshot holds every value of every extracted map
\* under its key, unless a later step sets that key: the hidden h2hConfigChangesMade
\* becomes "y", a key of a later map takes that map's value, and a key among the fixed
\* fields takes the fixed value.  The division and schedule values are all there, in
\* their order, after whatever a field of that name left.
C11_ExtractedValuesUnlessSetLater ==
    FreshBuild =>
        LET secs == Sections(setup.FormConfig)
        IN /\ \A i \in 1..Len(secs) : \A k \in DOMAIN secs[i].m :
                 LET key == secs[i].prefix \o k
                     later == \E j \in (i + 1)..Len(secs) : key \in SectionKeys(secs[j])
                     want == IF i = 1 /\ k = "h2hConfigChangesMade" THEN "y" ELSE secs[i].m[k]
                 IN /\ key \in DOMAIN last.form
                    /\ (~later /\ key \notin FixedKeys) =>
                          \A periodOrder \in RangeOrders(setup) :
                              last.form[key] = <<want>> \o Added(setup, key, periodOrder)
           /\ \A periodOrder \in RangeOrders(setup) : \A key \in {"~~divisions", "matchups"} :
                 Len(Added(setup, key, periodOrder)) > 0 =>
                     /\ key \in DOMAIN last.form
                     /\ IsSuffix(Added(setup, key, periodOrder), last.form[key])

C11_Witness ==
    /\ FreshBuild
    /\ "sport" \in DOMAIN setup.FormConfig.HiddenFields \cap DOMAIN setup.FormConfig.SelectFields
    /\ last.form["sport"] = <<"NHL">>
    /\ Len(setup.FormConfig.Divisions) >= 1
    /\ Len(last.form["matchups"]) >= 3

\* the key of the owner-email field of an owner of a team
OwnerKey(teamID, owner) ==
    "teamOwnerEmail," \o owner.Email \o "," \o teamID \o "," \o owner.UserID

TeamOwners(s) ==
    UNION {{[team |-> s.Teams[i].TeamID, owner |-> s.Teams[i].Owners[j]] :
                j \in 1..Len(s.Teams[i].Owners)} : i \in 1..Len(s.Teams)}

\* C12: an owner has an owner-email field, in the form state and in the form built from
\* it, exactly when the owner is neither commissioner nor joined; the field is keyed
\* teamOwnerEmail,{email},{teamId},{userId} and holds the email.
C12_OwnerEmailIffNeitherFlag ==
    pc = "fetched" =>
        \A to \in TeamOwners(setup) :
            LET key == OwnerKey(to.team, to.owner)
                due == ~to.owner.IsCommissioner /\ ~to.owner.JoinedLeague
            IN /\ key \in DOMAIN setup.FormConfig.OwnerEmailFields <=> due
               /\ due => setup.FormConfig.OwnerEmailFields[key] = to.owner.Email
               /\ Built => /\ key \in DOMAIN last.form <=> due
                           /\ due => last.form[key] = <<to.owner.Email>>

C12_Witness ==
    /\ Built
    /\ \E a, b \in TeamOwners(setup) :
          /\ ~a.owner.IsCommissioner /\ ~a.owner.JoinedLeague
          /\ last.form[OwnerKey(a.team, a.owner)] = <<a.owner.Email>>
          /\ b.owner.IsCommissioner \/ b.owner.JoinedLeague
          /\ OwnerKey(b.team, b.owner) \notin DOMAIN last.form

\* the declarations of the page that carry the placeholder user id
NullDecls == {i \in 1..Len(page.decls) : page.decls[i].userID = "NULL"}

\* the owner the i-th declaration of the page became: the owners of a team are kept
\* in the order of the team's declarations
OwnerOfDecl(s, i) ==
    LET teamID == page.decls[i].teamID
        nth == Cardinality({j \in 1..i : page.decls[j].teamID = teamID})
    IN GetTeamByID(s, teamID)[1].Owners[nth]

LastField(key) == LET parts == SplitAll(key, ",") IN parts[Len(parts)]

Procs == {1, 2}

\* one counter for every call
CounterCellShared(p) == 0

\* line 162: uniqueTempUserID := 0 declares the counter in the call, so each call
\* holds a cell of its own
CounterCell(p) == p

\* lines 164-199: one turn of the loop over the addTeam() matches
TeamsStep(m, teams, counter) ==
    LET isNull == m.userID = "NULL"
        userID == IF isNull THEN "NULL_" \o Itoa(counter) ELSE m.userID
        owner == [Email |-> m.email, UserID |-> userID,
                  IsCommissioner |-> m.isCommissioner, JoinedLeague |-> m.joinedLeague]
        idx == TeamIndex(teams, m.teamID)
    IN [counter |-> IF isNull THEN counter + 1 ELSE counter,
        teams |-> IF idx # 0
                  THEN [teams EXCEPT ![idx].Owners = Append(@, owner)]
                  ELSE Append(teams, [TeamID |-> m.teamID, Name |-> m.name,
                                      ShortName |-> m.shortName, Owners |-> <<owner>>])]

Idle(decls) ==
    [decls |-> decls, at |-> "idle", i |-> 0, teams |-> <<>>, err |-> "", overlapped |-> FALSE]

InitExtract ==
    /\ page = CHOOSE pg \in Pages : TRUE
    /\ pc = "new"
    /\ setup = NilSetup
    /\ last = NoOp
    /\ NoCaller
    /\ NoSessions
    /\ NoEditor
    /\ extraction \in [Procs -> {Idle(decls) : decls \in DeclLists}]
    /\ counters = [cell \in {0} \cup Procs |-> 0]

Others(p) == \E q \in Procs \ {p} : extraction[q].at = "loop"

\* lines 153-162: the matches are found, and the counter is declared at 0
ExtractBegin(p) ==
    /\ extraction[p].at = "idle"
    /\ IF Len(extraction[p].decls) = 0
       THEN /\ extraction' = [extraction EXCEPT ![p].at = "done",
                                                ![p].err = "no addTeam() calls found in HTML"]
            /\ UNCHANGED counters
       ELSE /\ extraction' = [extraction EXCEPT ![p].at = "loop", ![p].i = 1]
            /\ counters' = [counters EXCEPT ![CounterCell(p)] = 0]
    /\ UNCHANGED <<leagueVars, caller, sessionVars, editor>>

\* lines 164-199: a turn of the loop
ExtractStep(p) ==
    /\ extraction[p].at = "loop"
    /\ extraction[p].i <= Len(extraction[p].decls)
    /\ LET r == TeamsStep(extraction[p].decls[extraction[p].i], extraction[p].teams,
                          counters[CounterCell(p)])
       IN /\ extraction' = [extraction EXCEPT ![p].teams = r.teams, ![p].i = @ + 1,
                                              ![p].overlapped = @ \/ Others(p)]
          /\ counters' = [counters EXCEPT ![CounterCell(p)] = r.counter]
    /\ UNCHANGED <<leagueVars, caller, sessionVars, editor>>

\* line 201: return teams, nil
ExtractReturn(p) ==
    /\ extraction[p].at = "loop"
    /\ extraction[p].i > Len(extraction[p].decls)
    /\ extraction' = [extraction EXCEPT ![p].at = "done"]
    /\ UNCHANGED <<leagueVars, counters, caller, sessionVars, editor>>

NextExtract == \E p \in Procs : ExtractBegin(p) \/ ExtractStep(p) \/ ExtractReturn(p)

SpecExtract == InitExtract /\ [][NextExtract]_vars

\* C14: the counter belongs to one extraction call: of two calls, run one after the
\* other or interleaved, on one page or on two, each has at every turn the teams that
\* call alone has after so many declarations, its placeholders numbered from 0.
C14_CounterPerCall ==
    \A p \in DOMAIN extraction :
        extraction[p].at \in {"loop", "done"} /\ extraction[p].err = "" =>
            extraction[p].teams =
                TeamsLoop(SubSeq(extraction[p].decls, 1, extraction[p].i - 1), <<>>, 0)

C14_Witness ==
    /\ DOMAIN extraction = Procs
    /\ \A p \in Procs :
          /\ extraction[p].at = "done"
          /\ extraction[p].overlapped
          /\ \E i \in 1..Len(extraction[p].teams) :
                extraction[p].teams[i].Owners[1].UserID = "NULL_0"
    /\ extraction[1].decls # extraction[2].decls
    /\ \E i \in 1..Len(extraction[1].teams) : \E j \in 1..Len(extraction[1].teams[i].Owners) :
          extraction[1].teams[i].Owners[j].UserID = "NULL_1"

\* the keys the loops after the hidden-field loop set
SetAfterHidden(cfg) ==
    UNION {SectionKeys(Sections(cfg)[j]) : j \in 2..Len(Sections(cfg))}

FixedValue(key, period) ==
    CASE key = "tabId" -> "Matchups"
      [] key = "gotoNextPage" -> "false"
      [] key = "divisionName" -> ""
      [] key = "inviteMessage" -> ""
      [] key = "calculatedHeadToHeadOpponentType" -> "1"
      [] key = "playoffMatchupSetConfigId" -> ""
      [] key = "matchupScoringPeriodToEdit" -> Itoa(period)
      [] key = "matchupsEditedManually" -> "true"

\* C16: every form carries, each as its only value, the six fixed fields, the number of
\* the period edited and the manual-edit flag, whatever the period and whatever field
\* of the same name the snapshot holds.
C16_FixedFields ==
    Built =>
        \A key \in FixedKeys :
            /\ key \in DOMAIN last.form
            /\ last.form[key] = <<FixedValue(key, last.period)>>

C16_Witness ==
    /\ Built
    /\ "tabId" \in DOMAIN setup.FormConfig.HiddenFields
    /\ setup.FormConfig.HiddenFields["tabId"] = "Teams"
    /\ setup.FormConfig.SelectFields["matchupScoringPeriodToEdit"] = "5"
    /\ last.period = 3
    /\ last.form["tabId"] = <<"Matchups">>
    /\ last.form["matchupScoringPeriodToEdit"] = <<"3">>

\* the elements of a sequence in the order they are first seen
RECURSIVE FirstSeen(_)
FirstSeen(seq) ==
    IF Len(seq) = 0 THEN <<>>
    ELSE LET front == FirstSeen(SubSeq(seq, 1, Len(seq) - 1))
             x == seq[Len(seq)]
         IN IF x \in SeqToSet(front) THEN front ELSE Append(front, x)

\* the divisions of the page and the members the page gives each, as first seen
PageDivisions == FirstSeen([i \in 1..Len(page.divNames) |-> page.divNames[i].id])

PageMembers(divID) ==
    LET calls == SelectSeq(page.divTeams, LAMBDA c : c.div = divID)
    IN FirstSeen([i \in 1..Len(calls) |-> calls[i].team])

\* C17: the form holds under "~~divisions" one value for each division with a member,
\* divisionId=teamId1|teamId2|..., the members and the divisions as first seen on the
\* page; a division with no member gives no value, and the values are kept apart.
C17_DivisionEntries ==
    Built =>
        LET withMembers == SelectSeq(PageDivisions, LAMBDA d : Len(PageMembers(d)) > 0)
            want == [i \in 1..Len(withMembers) |->
                        withMembers[i] \o "=" \o Join(PageMembers(withMembers[i]), "|")]
        IN IF Len(want) = 0 THEN "~~divisions" \notin DOMAIN last.form
           ELSE /\ "~~divisions" \in DOMAIN last.form
                /\ last.form["~~divisions"] = want

C17_Witness ==
    /\ Built
    /\ last.form["~~divisions"] = <<"d1=b1|z9", "d3=c1">>
    /\ \E i \in 1..Len(setup.Divisions) : Len(setup.Divisions[i].TeamIDs) = 0

TeamIDs(s) == {s.Teams[i].TeamID : i \in 1..Len(s.Teams)}

\* the part of a key after a prefix it starts with
AfterPrefix(key, prefix) == SubSeq(key, Len(prefix) + 1, Len(key))

\* C18: for every team of the snapshot the form holds one teamName_{id} and one
\* teamShortName_{id} field, with the name and short name the team extractor recorded
\* for the id, and it holds no such field for an id that is no team of the snapshot.
C18_TeamNameFields ==
    Built =>
        /\ \A i \in 1..Len(setup.Teams) :
              LET team == setup.Teams[i]
              IN /\ "teamName_" \o team.TeamID \in DOMAIN last.form
                 /\ last.form["teamName_" \o team.TeamID] = <<team.Name>>
                 /\ "teamShortName_" \o team.TeamID \in DOMAIN last.form
                 /\ last.form["teamShortName_" \o team.TeamID] = <<team.ShortName>>
        /\ \A key \in DOMAIN last.form : \A prefix \in {"teamName_", "teamShortName_"} :
              HasPrefix(key, prefix) => AfterPrefix(key, prefix) \in TeamIDs(setup)

C18_Witness ==
    /\ Built
    /\ Len(setup.Teams) = 2
    /\ last.form["teamName_b1"] = <<"Bats">>
    /\ last.form["teamShortName_a1"] = <<"ACE">>
    /\ Len(setup.Teams[1].Owners) = 1

\* what a page can lack, stage by stage
ScheduleFails ==
    \/ ~page.hasMap
    \/ Len(page.periods) = 0
    \/ \E i \in 1..Len(page.periods) : \E j \in 1..Len(page.periods[i].pairs) :
          ~Contains(page.periods[i].pairs[j], "_")
TeamsFail == Len(page.decls) = 0
DivisionsFail == Len(page.divNames) = 0

\* C19: GetLeagueSetupMatchups returns a whole snapshot of the page or an error and no
\* snapshot.  It fails when the schedule block is absent, holds no period or holds a
\* pair that does not split, when no team declaration matches and when no division
\* name matches; the error names the first stage that failed, schedule, then teams,
\* then divisions, then form state.
C19_WholeSnapshotOrError ==
    /\ pc = "failed" =>
          /\ setup = NilSetup
          /\ last.err # ""
          /\ last.err # "failed to fetch league setup page" =>
                /\ ScheduleFails \/ TeamsFail \/ DivisionsFail
                /\ HasPrefix(last.err,
                       IF ScheduleFails THEN "failed to parse matchup map: "
                       ELSE IF TeamsFail THEN "failed to parse teams: "
                       ELSE "failed to parse divisions: ")
    /\ pc = "fetched" =>
          /\ ~ScheduleFails /\ ~TeamsFail /\ ~DivisionsFail
          /\ last.op = "fetch" =>
                /\ last.err = ""
                /\ setup.Matchups = parseMatchupMap(page).val
                /\ setup.Teams = parseTeams(page).val
                /\ setup.Divisions = parseDivisions(page).val
                /\ setup.FormConfig = parseFormConfig(page, setup.Teams, setup.Divisions).val
                /\ DOMAIN setup.Matchups # {} /\ Len(setup.Teams) > 0 /\ Len(setup.Divisions) > 0

C19_Witness ==
    /\ pc = "failed"
    /\ ~ScheduleFails /\ TeamsFail /\ DivisionsFail
    /\ last.err = "failed to parse teams: no addTeam() calls found in HTML"

\* the snapshot as fetched, no period replaced
Unmutated == pc = "fetched" /\ last.op \in {"fetch", "build"}

\* C20: the schedule extractor splits a pair string at its first "_" only: the away id
\* is the text before it, the home id all the text after it, so that serialising the
\* pair gives the string back; '3':['a1_b1','c1_-1'] gives period 3 = [(a1,b1),(c1,-1)].
C20_SplitAtFirstSeparator ==
    Unmutated =>
        \A i \in 1..Len(page.periods) :
            LET entry == page.periods[i]
                pairs == setup.Matchups[AtoiDigits(entry.period)]
            IN /\ Len(pairs) = Len(entry.pairs)
               /\ \A j \in 1..Len(pairs) :
                     /\ ~Contains(pairs[j].AwayTeamID, "_")
                     /\ entry.pairs[j] = pairs[j].AwayTeamID \o "_" \o pairs[j].HomeTeamID
                     /\ PairToken(pairs[j]) = entry.pairs[j]
               /\ (entry.period = "3" /\ entry.pairs = <<"a1_b1", "c1_-1">>) =>
                     pairs = <<Pair("a1", "b1"), Pair("c1", "-1")>>

C20_Witness ==
    /\ Unmutated
    /\ 3 \in DOMAIN setup.Matchups /\ 10 \in DOMAIN setup.Matchups
    /\ setup.Matchups[3] = <<Pair("a1", "b1"), Pair("c1", "-1")>>
    /\ setup.Matchups[10] = <<Pair("b1", "a_1")>>
    /\ \E i \in 1..Len(page.periods) : page.periods[i].pairs = <<"b1_a_1">>

(***************************************************************************)
(* The form state against the page.                                        *)
(***************************************************************************)
HasQuote(s) == Contains(s, "'")

\* the names and values the scans of parseFormConfig left in the form state
Captured(cfg) ==
    UNION {DOMAIN m \cup {m[k] : k \in DOMAIN m} :
              m \in {cfg.HiddenFields, cfg.SelectFields, cfg.CheckboxFields}}

\* C21: no name and no value that the hidden, select, checkbox or text scan left in the
\* form state holds a quote character.
C21_NoQuoteCaptured ==
    pc = "fetched" => \A s \in Captured(setup.FormConfig) : ~HasQuote(s)

\* ---------------------------------------------------------------------------------
\* A caller that keeps its slice after the call.  setup.Matchups[period] = matchups
\* (set_period_matchups.go line 33) stores the slice header it was given, so the
\* snapshot's list and the caller's slice have one backing array: caller.shares is the
\* set of periods whose list is that array, caller.given the list each call was given.

BasePage ==
    [hasMap |-> TRUE,
     periods |-> <<PM("10", <<"b1_a_1">>), PM("3", <<"a1_b1", "c1_-1">>)>>,
     decls |-> <<Decl("Aces", "ACE", "a@x.io", "a1", "u1", TRUE, TRUE),
                 Decl("Bats", "BAT", "b@x.io", "b1", "NULL", FALSE, FALSE)>>,
     divNames |-> <<DivName("d1", "East")>>,
     divTeams |-> <<DivTeam("d1", "a1"), DivTeam("d1", "b1")>>,
     hidden |-> <<Tag("h2hConfigChangesMade", "n"), Tag("leagueName", "My League")>>,
     selects |-> <<Sel("scoringType", "H2H")>>,
     texts |-> <<Tag("startDate", "2026-03-01")>>,
     checkboxes |-> <<Tag("autoDraft", "true")>>]

WrittenPairs == {Pair("zz", "b1"), Pair("a1", "-1")}

InitAlias ==
    /\ page = BasePage
    /\ pc = "new"
    /\ setup = NilSetup
    /\ last = NoOp
    /\ NoExtract
    /\ caller \in {[list |-> l, shares |-> {}, given |-> <<>>] : l \in Replacements}
    /\ NoSessions
    /\ NoEditor

\* err := client.SetPeriodMatchups(setup, period, L)
SetPeriodMatchupsOfCaller ==
    /\ pc = "fetched"
    /\ \E period \in PeriodArgs :
          /\ Handle(period, caller.list)
          /\ caller' = IF Validate(setup, period, caller.list) # ""
                       THEN caller
                       ELSE [caller EXCEPT !.shares = @ \cup {period},
                                           !.given = Put(@, period, caller.list)]
    /\ UNCHANGED <<page, pc, extractVars, sessionVars, editor>>

\* L[i] = pair, by the caller, after the call returned: a write to the backing array,
\* seen through every slice header that points at it
CallerWrites ==
    /\ pc = "fetched"
    /\ \E i \in 1..Len(caller.list) : \E pair \in WrittenPairs :
          /\ pair # caller.list[i]
          /\ LET l == [caller.list EXCEPT ![i] = pair]
             IN /\ caller' = [caller EXCEPT !.list = l]
                /\ setup' = [setup EXCEPT !.Matchups =
                                [p \in DOMAIN @ |-> IF p \in caller.shares THEN l ELSE @[p]]]
    /\ UNCHANGED <<page, pc, last, extractVars, sessionVars, editor>>

NextAlias ==
    \/ Fetch
    \/ SetPeriodMatchupsOfCaller
    \/ CallerWrites

SpecAlias == InitAlias /\ [][NextAlias]_vars

\* C22: the list the snapshot holds for a period is the list the call for that period
\* was given, whatever the caller does to its own slice afterwards.
C22_SnapshotListIndependent ==
    pc = "fetched" => \A p \in DOMAIN caller.given : setup.Matchups[p] = caller.given[p]

Ascending(seq) == \A i, j \in 1..Len(seq) : i < j => seq[i] < seq[j]

FetchedPeriods == DOMAIN GetLeagueSetupMatchups(page, TRUE).val.Matchups

\* C23: whatever order the range over the map takes, GetSortedPeriods returns every
\* period of the snapshot exactly once in strictly ascending order, and the periods it
\* returns after any sequence of SetPeriodMatchups calls are those it returned after the
\* fetch.
C23_SortedPeriodsStable ==
    pc = "fetched" =>
        \A periodOrder \in RangeOrders(setup) :
            LET periods == GetSortedPeriods(setup, periodOrder)
            IN /\ SeqToSet(periods) = DOMAIN setup.Matchups
               /\ Len(periods) = Cardinality(DOMAIN setup.Matchups)
               /\ Ascending(periods)
               /\ SeqToSet(periods) = FetchedPeriods
               /\ SetCall => \A before \in RangeOrders(last.pre) :
                                periods = GetSortedPeriods(last.pre, before)

C23_Witness ==
    /\ Passed
    /\ last.err = ""
    /\ last.period = 10
    /\ <<10, 3>> \in RangeOrders(setup)
    /\ GetSortedPeriods(setup, <<10, 3>>) = <<3, 10>>

\* C24: every period a fetched snapshot knows holds at least one pair.
C24_EveryPeriodHasAPair ==
    pc = "fetched" => \A p \in DOMAIN setup.Matchups : Len(setup.Matchups[p]) >= 1

\* C25: every member id a division of a fetched snapshot lists is the id of a team of
\* that snapshot.
C25_MembersAreTeams ==
    pc = "fetched" =>
        \A i \in 1..Len(setup.Divisions) :
            SeqToSet(setup.Divisions[i].TeamIDs) \subseteq TeamIDs(setup)

\* the declarations of the page that name a team id, in page order
DeclsOf(teamID) == SelectSeq(page.decls, LAMBDA d : d.teamID = teamID)

\* C26: the teams of a fetched snapshot are the distinct team ids of the page's
\* declarations, one team each, in the order the ids are first seen; a team whose id
\* stands in N declarations holds N owners, those of its declarations in page order.
C26_OneTeamPerID ==
    pc = "fetched" =>
        /\ [i \in 1..Len(setup.Teams) |-> setup.Teams[i].TeamID]
              = FirstSeen([i \in 1..Len(page.decls) |-> page.decls[i].teamID])
        /\ \A i, j \in 1..Len(setup.Teams) :
              setup.Teams[i].TeamID = setup.Teams[j].TeamID => i = j
        /\ \A i \in 1..Len(setup.Teams) :
              LET decls == DeclsOf(setup.Teams[i].TeamID)
                  owners == setup.Teams[i].Owners
              IN /\ Len(owners) = Len(decls)
                 /\ \A k \in 1..Len(owners) :
                       /\ owners[k].Email = decls[k].email
                       /\ owners[k].IsCommissioner = decls[k].isCommissioner
                       /\ owners[k].JoinedLeague = decls[k].joinedLeague

C26_Witness ==
    /\ pc = "fetched"
    /\ Len(page.decls) = 2
    /\ Len(setup.Teams) = 1
    /\ Len(setup.Teams[1].Owners) = 2
    /\ setup.Teams[1].Owners[1].Email = "a@x.io"
    /\ setup.Teams[1].Owners[2].Email = "c@x.io"

\* ---------------------------------------------------------------------------------
\* Two sessions on one league.  Each holds the snapshot it fetched and calls
\* SetPeriodMatchups on it; remote is what the league's server was last sent and
\* answered with 302 (by, period, form) and the edits it has so answered (acked).
\* The sessions fetch the page as it is served before any submission.

SessionEdit(proc) ==
    IF proc = 1 THEN <<Pair("c1", "b1"), Pair("a1", "-1")>> ELSE <<Pair("b1", "a1")>>

NoSubmission == [by |-> 0, period |-> 0, form |-> EmptyMap, acked |-> {}]

InitSessions ==
    /\ page = BasePage
    /\ pc = "new"
    /\ setup = NilSetup
    /\ last = NoOp
    /\ NoExtract
    /\ NoCaller
    /\ sessions = [proc \in Procs |-> [pc |-> "new", setup |-> NilSetup]]
    /\ remote = NoSubmission
    /\ NoEditor

\* setup, err := client.GetLeagueSetupMatchups(), by session proc
SessionFetch(proc) ==
    /\ sessions[proc].pc = "new"
    /\ remote.by = 0
    /\ \E fetchOk \in BOOLEAN :
          LET r == GetLeagueSetupMatchups(page, fetchOk)
          IN sessions' = [sessions EXCEPT ![proc] =
                            IF r.err = "" THEN [pc |-> "fetched", setup |-> r.val]
                            ELSE [pc |-> "failed", setup |-> NilSetup]]
    /\ UNCHANGED <<leagueVars, extractVars, caller, remote, editor>>

\* err := client.SetPeriodMatchups(setup, period, matchups), by session proc
SessionSet(proc) ==
    /\ sessions[proc].pc = "fetched"
    /\ \E period \in PeriodArgs :
       \E met \in Meets(sessions[proc].setup, period, SessionEdit(proc)) :
       \E r \in {Call(sessions[proc].setup, period, SessionEdit(proc), met[1], met[2])} :
          /\ sessions' = [sessions EXCEPT ![proc].setup = r.setup]
          /\ remote' = IF r.validated /\ r.err = ""
                       THEN [by |-> proc, period |-> period, form |-> r.form,
                             acked |-> remote.acked \cup
                                          {[by |-> proc, period |-> period,
                                            matchups |-> SessionEdit(proc)]}]
                       ELSE remote
    /\ UNCHANGED <<leagueVars, extractVars, caller, editor>>

NextSessions == \E proc \in Procs : SessionFetch(proc) \/ SessionSet(proc)

SpecSessions == InitSessions /\ [][NextSessions]_vars

\* the entry of one period holding pairs
EntryOf(period, pairs) ==
    serializeMatchups([Matchups |-> [p \in {period} |-> pairs]], <<period>>)[1]

Served == GetLeagueSetupMatchups(page, TRUE).val.Matchups

\* C27: the form the server last answered with 302 holds an entry for every period of
\* the league, taken from its sender's snapshot: the sender's own edits and, for every
\* other period, the list the sender fetched.  No edit of the other session is in it,
\* whether or not the server had answered that edit with 302 before.
C27_LastWriterWins ==
    remote.by # 0 =>
        LET entries == SeqToSet(remote.form["matchups"])
        IN /\ {PeriodOf(e) : e \in entries} = DOMAIN Served
           /\ Len(remote.form["matchups"]) = Cardinality(DOMAIN Served)
           /\ \A p \in DOMAIN Served :
                 \/ EntryOf(p, Served[p]) \in entries
                 \/ EntryOf(p, SessionEdit(remote.by)) \in entries
           /\ \A e \in remote.acked :
                 e.by # remote.by => EntryOf(e.period, e.matchups) \notin entries

C27_Witness ==
    /\ remote.by = 2
    /\ remote.period = 10
    /\ [by |-> 1, period |-> 3, matchups |-> SessionEdit(1)] \in remote.acked
    /\ EntryOf(3, SessionEdit(1)) \notin SeqToSet(remote.form["matchups"])
    /\ EntryOf(3, Served[3]) \in SeqToSet(remote.form["matchups"])
    /\ EntryOf(10, SessionEdit(2)) \in SeqToSet(remote.form["matchups"])

\* ---------------------------------------------------------------------------------
\* A caller that goes on calling after a call returned an error.  caller.failed holds,
\* by period, the list of each call that passed validation and then returned an error
\* and that no later validated call on the period has replaced; caller.before is
\* caller.failed as it was when the last call began.

RetryLists == {<<>>, SessionEdit(1), SessionEdit(2)}

Without(m, k) == [x \in DOMAIN m \ {k} |-> m[x]]

InitRetry ==
    /\ page = BasePage
    /\ pc = "new"
    /\ setup = NilSetup
    /\ last = NoOp
    /\ NoExtract
    /\ caller = [failed |-> EmptyMap, before |-> EmptyMap]
    /\ NoSessions
    /\ NoEditor

\* err := client.SetPeriodMatchups(setup, period, matchups), whatever the calls before
\* it returned
SetPeriodMatchupsAgain ==
    /\ pc = "fetched"
    /\ \E period \in PeriodArgs : \E matchups \in RetryLists :
          /\ Handle(period, matchups)
          /\ caller' = [before |-> caller.failed,
                        failed |-> IF ~last'.validated THEN caller.failed
                                   ELSE IF last'.err # "" THEN Put(caller.failed, period, matchups)
                                   ELSE Without(caller.failed, period)]
    /\ UNCHANGED <<page, pc, extractVars, sessionVars, editor>>

NextRetry ==
    \/ Fetch
    \/ SetPeriodMatchupsAgain

SpecRetry == InitRetry /\ [][NextRetry]_vars

\* C28 as stated: a call that passes validation and then fails leaves its list in the
\* snapshot, and the form of every later call holds the entry of that list for that
\* period.
C28_EveryLaterPayload ==
    /\ Passed /\ last.err # "" => setup.Matchups[last.period] = last.matchups
    /\ Passed => \A p \in DOMAIN caller.before :
                    EntryOf(p, caller.before[p]) \in SeqToSet(last.form["matchups"])

\* C28: a call that passes validation and then fails leaves its list in the snapshot;
\* the list stays there until a later call that passes validation replaces it, and the
\* form of every later call that passes validation and edits another period holds the
\* entry of that list for that period.
C28_UnsavedUntilReplaced ==
    /\ Passed /\ last.err # "" => setup.Matchups[last.period] = last.matchups
    /\ pc = "fetched" => \A p \in DOMAIN caller.failed : setup.Matchups[p] = caller.failed[p]
    /\ Passed => \A p \in DOMAIN caller.before \ {last.period} :
                    EntryOf(p, caller.before[p]) \in SeqToSet(last.form["matchups"])

C28_Witness ==
    /\ Passed
    /\ last.period = 10
    /\ 3 \in DOMAIN caller.before
    /\ caller.before[3] = SessionEdit(1)
    /\ caller.before[3] # Served[3]
    /\ EntryOf(3, SessionEdit(1)) \in SeqToSet(last.form["matchups"])

(***************************************************************************)
(* edit_roster.go: the RosterEditor.  editor holds the fields of the       *)
(* editor (fieldMap, playerNames, changesMade) and, beside them, what the  *)
(* claims about it speak of: fetched, the player ids of the roster the     *)
(* editor was created from; queued, the changes of the moves that returned *)
(* nil since the last Apply that committed; last, the last call, its       *)
(* result and the fieldMap and changesMade it began with.                  *)
(***************************************************************************)
\* lines 14-19
StatusActive == "1"
StatusReserve == "2"
StatusIR == "3"
StatusMinors == "9"

\* lines 25-37
PosC == "001"
Pos1B == "002"
Pos3B == "004"
PosSS == "005"
PosMI == "007"
PosCF == "010"
PosOF == "012"
PosUtil == "014"
PosSP == "015"
PosRP == "016"
PosP == "017"
PosRP2 == "043"
PosRP3 == "044"

\* lines 502-515
statusName(statusID) ==
    CASE statusID = StatusActive -> "Active"
      [] statusID = StatusReserve -> "Reserve"
      [] statusID = StatusIR -> "IR"
      [] statusID = StatusMinors -> "Minors"
      [] OTHER -> "Status(" \o statusID \o ")"

\* lines 518-549
positionName(positionID) ==
    CASE positionID = PosC -> "C"
      [] positionID = Pos1B -> "1B"
      [] positionID = Pos3B -> "3B"
      [] positionID = PosSS -> "SS"
      [] positionID = PosMI -> "MI"
      [] positionID = PosCF -> "CF"
      [] positionID = PosOF -> "OF"
      [] positionID = PosUtil -> "Util"
      [] positionID = PosSP -> "SP"
      [] positionID = PosRP -> "RP"
      [] positionID = PosP -> "P"
      [] positionID = PosRP2 -> "RP2"
      [] positionID = PosRP3 -> "RP3"
      [] OTHER -> "Pos(" \o positionID \o ")"

\* a row of a roster table; ScorerID "" for an empty slot or a section header
Row(scorerID, name, statusID, posID) ==
    [ScorerID |-> scorerID, Name |-> name, StatusID |-> statusID, PosID |-> posID]

RosterPosition(posID, stID) == [PosID |-> posID, StID |-> stID]

\* lines 243-264: the loop of BuildFieldMapFromRoster over the rows of all tables
RECURSIVE FieldMapLoop(_, _)
FieldMapLoop(rows, fieldMap) ==
    IF Len(rows) = 0 THEN fieldMap
    ELSE LET row == Head(rows)
         IN IF row.ScorerID = "" THEN FieldMapLoop(Tail(rows), fieldMap)
            ELSE FieldMapLoop(Tail(rows),
                              Put(fieldMap, row.ScorerID, RosterPosition(row.PosID, row.StatusID)))

\* the rows of all tables, table after table
RECURSIVE AllRows(_)
AllRows(tables) == IF Len(tables) = 0 THEN <<>> ELSE Head(tables) \o AllRows(Tail(tables))

BuildFieldMapFromRoster(roster) ==
    IF ~roster.hasResponse THEN EmptyMap ELSE FieldMapLoop(AllRows(roster.tables), EmptyMap)

\* lines 330-337: playerNames
RECURSIVE PlayerNamesLoop(_, _)
PlayerNamesLoop(rows, playerNames) ==
    IF Len(rows) = 0 THEN playerNames
    ELSE LET row == Head(rows)
         IN IF row.ScorerID # "" THEN PlayerNamesLoop(Tail(rows), Put(playerNames, row.ScorerID, row.Name))
            ELSE PlayerNamesLoop(Tail(rows), playerNames)

\* the result of a move: the editor it leaves and the error it returns, "" for nil
Moved(e, err) == [editor |-> e, err |-> err]

NotFound(playerID) == "player " \o playerID \o " not found on roster"

\* " -> " stands for the arrow U+2192 of the source's format strings

\* lines 363-384
MoveToActive(e, playerID, positionID) ==
    IF playerID \notin DOMAIN e.fieldMap THEN Moved(e, NotFound(playerID))
    ELSE LET pos == e.fieldMap[playerID]
             oldStatus == pos.StID
             oldPos == pos.PosID
             playerName == e.playerNames[playerID]
             change == IF oldStatus = StatusActive /\ oldPos # ""
                       THEN playerName \o ": " \o positionName(oldPos) \o " -> "
                               \o positionName(positionID)
                       ELSE playerName \o ": " \o statusName(oldStatus) \o " -> Active at "
                               \o positionName(positionID)
         IN Moved([e EXCEPT !.fieldMap[playerID] = RosterPosition(positionID, StatusActive),
                            !.changesMade = Append(@, change)], "")

\* a move to a status that clears the position: the body MoveToReserve, MoveToMinors
\* and MoveToIR share
MoveTo(e, playerID, stID, label) ==
    IF playerID \notin DOMAIN e.fieldMap THEN Moved(e, NotFound(playerID))
    ELSE LET pos == e.fieldMap[playerID]
             oldStatus == pos.StID
             playerName == e.playerNames[playerID]
         IN Moved([e EXCEPT !.fieldMap[playerID] = RosterPosition("", stID),
                            !.changesMade =
                                Append(@, playerName \o ": " \o statusName(oldStatus)
                                             \o " -> " \o label)], "")

\* a move to Reserve that never looks the player up
MoveToReserveUnchecked(e, playerID) ==
    Moved([e EXCEPT !.fieldMap = Put(@, playerID, RosterPosition("", StatusReserve)),
                    !.changesMade = Append(@, ": Reserve")], "")

\* lines 389-403
MoveToReserve(e, playerID) == MoveTo(e, playerID, StatusReserve, "Reserve")

\* lines 408-422
MoveToMinors(e, playerID) == MoveTo(e, playerID, StatusMinors, "Minors")

\* lines 427-441
MoveToIR(e, playerID) == MoveTo(e, playerID, StatusIR, "IR")

\* lines 480-482
GetPendingChanges(e) == e.changesMade

\* lines 133-151, 173-219: ConfirmOrExecuteTeamRosterChanges, given what the server
\* answers; the result is [err, Success, ErrorMessage], err = "" for nil
ConfirmOrExecuteTeamRosterChanges(resp) ==
    IF ~resp.netOk THEN [err |-> "failed to send request", Success |-> FALSE, ErrorMessage |-> ""]
    ELSE IF resp.status # 200
    THEN [err |-> "API returned non-200 status code", Success |-> FALSE, ErrorMessage |-> ""]
    ELSE IF resp.responses = 0
    THEN [err |-> "API returned empty responses array", Success |-> FALSE, ErrorMessage |-> ""]
    ELSE IF resp.mainMsg # ""
    THEN [err |-> "", Success |-> FALSE, ErrorMessage |-> resp.mainMsg]
    ELSE IF ~resp.changeAllowed
    THEN [err |-> "", Success |-> FALSE, ErrorMessage |-> "Change not allowed by league rules"]
    ELSE IF resp.showConfirmWindow
    THEN [err |-> "", Success |-> FALSE,
          ErrorMessage |-> "API indicated error via showConfirmWindow"]
    ELSE [err |-> "", Success |-> TRUE, ErrorMessage |-> ""]

Response(netOk, status, responses, mainMsg, changeAllowed, showConfirmWindow) ==
    [netOk |-> netOk, status |-> status, responses |-> responses, mainMsg |-> mainMsg,
     changeAllowed |-> changeAllowed, showConfirmWindow |-> showConfirmWindow]

Responses ==
    { Response(FALSE, 0, 0, "", FALSE, FALSE),
      Response(TRUE, 500, 0, "", FALSE, FALSE),
      Response(TRUE, 200, 0, "", FALSE, FALSE),
      Response(TRUE, 200, 1, "Roster is locked", TRUE, FALSE),
      Response(TRUE, 200, 1, "", FALSE, FALSE),
      Response(TRUE, 200, 1, "", TRUE, TRUE),
      Response(TRUE, 200, 1, "", TRUE, FALSE) }

Rosters ==
    { [hasResponse |-> TRUE,
       tables |-> << <<Row("p1", "Ann", "1", "005"), Row("", "", "", "")>>,
                     <<Row("p2", "Bob", "2", "")>> >>],
      [hasResponse |-> TRUE,
       tables |-> << <<Row("p1", "Ann", "9", ""), Row("p2", "Bob", "1", "")>> >>] }

PlayerArgs == {"p1", "p2", "p9"}
PositionArgs == {PosSS, PosC}

MaxMoves == 2

NoCall == [op |-> "none", playerID |-> "", err |-> "", Success |-> FALSE,
           fieldMap |-> EmptyMap, changesMade |-> <<>>]

\* lines 327-350: the editor NewRosterEditor returns for a roster it fetched
NewRosterEditor(roster) ==
    [fieldMap |-> BuildFieldMapFromRoster(roster),
     playerNames |-> PlayerNamesLoop(AllRows(roster.tables), EmptyMap),
     changesMade |-> <<>>,
     fetched |-> {row.ScorerID : row \in {r \in SeqToSet(AllRows(roster.tables)) : r.ScorerID # ""}},
     queued |-> <<>>,
     last |-> NoCall]

InitEditor ==
    /\ page = CHOOSE pg \in Pages : TRUE
    /\ pc = "new"
    /\ setup = NilSetup
    /\ last = NoOp
    /\ NoExtract
    /\ NoCaller
    /\ NoSessions
    /\ editor \in {NewRosterEditor(roster) : roster \in Rosters}

\* what a move leaves in editor: the editor the method leaves, the change queued when
\* it returned nil, and the call
AfterMove(op, playerID, r) ==
    [r.editor EXCEPT !.queued = IF r.err = "" THEN Append(@, r.editor.changesMade[Len(r.editor.changesMade)])
                                ELSE @,
                     !.last = [op |-> op, playerID |-> playerID, err |-> r.err,
                               Success |-> FALSE, fieldMap |-> editor.fieldMap,
                               changesMade |-> editor.changesMade]]

\* a move that queues a change has room for it
Room(playerID) == playerID \in DOMAIN editor.fieldMap => Len(editor.changesMade) < MaxMoves

\* err := editor.MoveToActive(playerID, positionID)
CallMoveToActive ==
    /\ \E playerID \in PlayerArgs : \E positionID \in PositionArgs :
          /\ Room(playerID)
          /\ editor' = AfterMove("MoveToActive", playerID,
                                 MoveToActive(editor, playerID, positionID))
    /\ UNCHANGED <<leagueVars, extractVars, caller, sessionVars>>

\* err := editor.MoveToReserve(playerID)
CallMoveToReserve ==
    /\ \E playerID \in PlayerArgs :
          /\ Room(playerID)
          /\ editor' = AfterMove("MoveToReserve", playerID, MoveToReserve(editor, playerID))
    /\ UNCHANGED <<leagueVars, extractVars, caller, sessionVars>>

\* err := editor.MoveToMinors(playerID)
CallMoveToMinors ==
    /\ \E playerID \in PlayerArgs :
          /\ Room(playerID)
          /\ editor' = AfterMove("MoveToMinors", playerID, MoveToMinors(editor, playerID))
    /\ UNCHANGED <<leagueVars, extractVars, caller, sessionVars>>

\* err := editor.MoveToIR(playerID)
CallMoveToIR ==
    /\ \E playerID \in PlayerArgs :
          /\ Room(playerID)
          /\ editor' = AfterMove("MoveToIR", playerID, MoveToIR(editor, playerID))
    /\ UNCHANGED <<leagueVars, extractVars, caller, sessionVars>>

\* lines 490-499: result, err := editor.Apply(applyToFuturePeriods); the editor's own
\* fields are read and none is written
Apply ==
    /\ \E resp \in Responses :
          LET r == ConfirmOrExecuteTeamRosterChanges(resp)
          IN editor' = [editor EXCEPT
                           !.queued = IF r.err = "" /\ r.Success THEN <<>> ELSE @,
                           !.last = [op |-> "Apply", playerID |-> "", err |-> r.err,
                                     Success |-> r.Success, fieldMap |-> editor.fieldMap,
                                     changesMade |-> editor.changesMade]]
    /\ UNCHANGED <<leagueVars, extractVars, caller, sessionVars>>

NextEditor ==
    \/ CallMoveToActive
    \/ CallMoveToReserve
    \/ CallMoveToMinors
    \/ CallMoveToIR
    \/ Apply

SpecEditor == InitEditor /\ [][NextEditor]_vars

MoveOps == {"MoveToActive", "MoveToReserve", "MoveToMinors", "MoveToIR"}

\* C29: a move called with a player id that is not on the roster returns an error and
\* leaves the field map and the list of pending changes as they were, and whatever the
\* moves made so far, the player ids of the field map are those of the roster the editor
\* was created from.
C29_UnknownPlayerRejected ==
    /\ DOMAIN editor.fieldMap = editor.fetched
    /\ editor.last.op \in MoveOps /\ editor.last.playerID \notin editor.fetched =>
          /\ editor.last.err # ""
          /\ editor.fieldMap = editor.last.fieldMap
          /\ GetPendingChanges(editor) = editor.last.changesMade

C29_Witness ==
    /\ editor.last.op = "MoveToIR"
    /\ editor.last.playerID = "p9"
    /\ editor.last.err = "player p9 not found on roster"
    /\ Len(editor.changesMade) = 2
    /\ editor.fieldMap["p1"].StID = StatusReserve

\* C30: GetPendingChanges returns the changes of the moves that returned nil since the
\* last Apply that committed, one each and in call order; after an Apply that committed
\* it returns none.
C30_PendingSinceApply ==
    GetPendingChanges(editor) = editor.queued

====
